---- MODULE Spec2Model ----
(***************************************************************************)
(* Hunter: contrarian paper-trading bot.                                   *)
(*                                                                         *)
(* The model covers the indicators and the signal decision (analysis.py),  *)
(* the trade journal and circuit-breaker state (database.py), the paper    *)
(* trader (execution.py), one analysis cycle, the pair scan and the two    *)
(* run modes (main.py: run_cycle, scan_top_pairs, run_manual, run_auto)    *)
(* and the news cache (news.py).                                           *)
(*                                                                         *)
(* Units.  The clock of the journal counts hours and the clock of the news *)
(* cache and of the loop counts seconds.  Money and prices are integers; the *)
(* float quotient of simulate_pnl is exact for every price and size the    *)
(* bounds below let the trader reach.  The long/short ratio is counted in  *)
(* tenths (0.8 is 8).  The averages of compute_rsi are exact fractions.    *)
(* Under SpecBinary64 the trader's amounts are binary64 floats, rounded as *)
(* CPython rounds them, for prices whose quotient is not exact.            *)
(***************************************************************************)
EXTENDS Integers, Sequences, FiniteSets, TLC

VARIABLES
    now,                 \* wall clock, datetime.now(timezone.utc), in hours
    consecutive_losses,  \* state row "consecutive_losses"
    cooldown_until,      \* state row "cooldown_until" (NoCooldown for "")
    trades,              \* table trades, in id order (id = index)
    balance,             \* PaperTrader.balance
    positions,           \* PaperTrader.positions: symbol -> position
    call,                \* the last call made on the program and its arguments
    result,              \* what that call returned
    raised,              \* the exception that call raised ("" when it returned)
    steps,               \* the steps the last run_cycle went through, in order
    epoch,               \* time.time(), in seconds
    cache,               \* NewsManager.cache
    last_update,         \* NewsManager.last_update
    requested,           \* the times of the requests sent to the news feed
    pc,                  \* where run_auto stands in its loop
    targets,             \* run_auto: the targets of the pass
    cycled,              \* run_auto: target -> how its run_cycle ended
    passes,              \* run_auto: the passes begun so far
    scanned              \* run_auto: what scan_top_pairs gave the pass

vars == <<now, consecutive_losses, cooldown_until, trades, balance,
          positions, call, result, raised, steps,
          epoch, cache, last_update, requested, pc, targets, cycled, passes,
          scanned>>

store == <<consecutive_losses, cooldown_until, trades>>
portfolio == <<balance, positions>>
news_state == <<epoch, cache, last_update, requested>>
loop_state == <<pc, targets, cycled, passes, scanned>>

----------------------------------------------------------------------------
(* Bounds of the model *)

MaxTime == 28
TickHours == 13
MaxTrades == 3
MaxRows == 4
MaxBalance == 10200
MaxEpoch == 2100
MaxRequests == 3
MaxPasses == 2
MaxPeriod == 3
MaxCloses == 5
MaxBars == 8
MaxPoints == 31

(* Inputs *)

Symbols == {"BTCUSDT", "ETHUSDT"}
Prices == {1, 2}
ExtremePrices == {-100, 0, 1, 2}
Signals == {"BUY", "SELL", "HOLD"}
Regimes == {"TRENDING", "CHOPPY", "UNKNOWN"}
RsiValues == {25, 30, 50, 70, 80}
LsRatios == {6, 8, 10}
WhaleVolumes == {-50, 0, 100}
LoggedPnls == {-5, 0, 10}
CrashPrices == {2, -197}
NonNegativePrices == {0, 1, 2}
UnevenPrices == {3, 4}

----------------------------------------------------------------------------
\* The periods, the short close series of every shape, and the series of
\* at least MinPoints closes that rise or fall strictly by 1, 2 or 3 a bar
\* (the numbers 1..n+2 without two of them), or do not move at all.
Periods == 1..MaxPeriod

CloseValues == {1, 2, 3}

ShortCloses == UNION {[1..n -> CloseValues] : n \in 0..MaxCloses}

MinPoints == 30

Rising(n, a, b) ==
    [i \in 1..n |-> i + (IF i >= a THEN 1 ELSE 0)
                      + (IF i + 1 >= b THEN 1 ELSE 0)]

Falling(n, a, b) == [i \in 1..n |-> Rising(n, a, b)[n + 1 - i]]

Flat(n) == [i \in 1..n |-> 2]

LongCloses ==
    UNION {UNION {{Rising(n, a, b), Falling(n, a, b)} :
                      a \in 1..(n + 1), b \in 2..(n + 2)} \cup {Flat(n)} :
              n \in MinPoints..MaxPoints}

(* config.py *)

KLINE_LIMIT == 100
BLACKLIST ==
    {"USDCUSDT", "USDPUSDT", "DAIUSDT", "BUSDUSDT", "TUSDUSDT", "FDUSDUSDT",
     "EURUSDT"}
TOP_PAIRS_COUNT == 10
ADX_PERIOD == 14
ADX_THRESHOLD == 25
RSI_PERIOD == 14
RSI_OVERSOLD == 30
LS_RATIO_THRESHOLD == 8
WHALE_NET_VOL_MIN == 0
MAX_CONSECUTIVE_LOSSES == 3
COOLDOWN_HOURS == 24
TRADE_SIZE_USD == 100
INITIAL_BALANCE_USD == 10000
CHECK_INTERVAL_SEC == 300
NEWS_OVERRIDE_RSI == TRUE
NEWS_POLL_INTERVAL_SEC == 900

----------------------------------------------------------------------------
(* database.py *)

\* The empty string the cooldown_until row is seeded with; get_cooldown_until
\* reads it as None.
NoCooldown == -1

get_consecutive_losses == consecutive_losses

get_cooldown_until == cooldown_until

is_on_cooldown ==
    IF get_cooldown_until = NoCooldown THEN FALSE ELSE now < get_cooldown_until

\* A row left with the column default of status.
TradeRow_default_status(side, price, size_usd, pnl) ==
    [timestamp |-> now, side |-> side, price |-> price,
     size_usd |-> size_usd, pnl |-> pnl, status |-> "OPEN"]

TradeRow(side, price, size_usd, pnl) ==
    [timestamp |-> now, side |-> side, price |-> price,
     size_usd |-> size_usd, pnl |-> pnl, status |-> "CLOSED"]

\* A streak that a break-even trade leaves standing.
losses_after_sticky(pnl) ==
    IF pnl < 0 THEN consecutive_losses + 1
    ELSE IF pnl = 0 THEN consecutive_losses ELSE 0

\* The streak log_trade writes for a trade with this pnl.
losses_after(pnl) == IF pnl < 0 THEN consecutive_losses + 1 ELSE 0

\* A journal that counts the streak and never starts a cooldown.
cooldown_after_never(pnl) == cooldown_until

\* The cooldown_until row after log_trade of a trade with this pnl.
cooldown_after(pnl) ==
    IF pnl < 0 /\ losses_after(pnl) >= MAX_CONSECUTIVE_LOSSES
    THEN now + COOLDOWN_HOURS
    ELSE cooldown_until

\* log_trade: insert the row, update the streak, trip the breaker.
log_trade(side, price, size_usd, pnl) ==
    /\ trades' = Append(trades, TradeRow(side, price, size_usd, pnl))
    /\ consecutive_losses' = losses_after(pnl)
    /\ cooldown_until' = cooldown_after(pnl)

set_cooldown_until(dt) ==
    /\ cooldown_until' = dt
    /\ UNCHANGED <<consecutive_losses, trades>>

\* INSERT OR REPLACE: the seed overwrites the stored value.
insert_or_replace(stored, seed) == seed

\* INSERT OR IGNORE of a state row whose key the store already has.
insert_or_ignore(stored, seed) == stored

\* init_db on a store that exists: the tables are kept (CREATE TABLE IF NOT
\* EXISTS) and the two state rows are seeded with INSERT OR IGNORE.
init_db ==
    /\ consecutive_losses' = insert_or_ignore(consecutive_losses, 0)
    /\ cooldown_until' = insert_or_ignore(cooldown_until, NoCooldown)
    /\ UNCHANGED trades

\* A reset that clears the cooldown and leaves the streak.
reset_circuit_breaker_cooldown_only ==
    /\ cooldown_until' = NoCooldown
    /\ UNCHANGED <<consecutive_losses, trades>>

reset_circuit_breaker ==
    /\ consecutive_losses' = 0
    /\ cooldown_until' = NoCooldown
    /\ UNCHANGED trades

----------------------------------------------------------------------------
(* analysis.py *)

\* The averages of compute_rsi are fractions.  The model keeps them exact: a
\* fraction is a numerator over a denominator, both natural numbers written
\* as their digits in this radix, least significant digit first.
Radix == 10000

RECURSIVE Carry(_, _)
Carry(digits, carry) ==
    IF digits = <<>>
    THEN IF carry = 0 THEN <<>>
         ELSE <<carry % Radix>> \o Carry(<<>>, carry \div Radix)
    ELSE <<(Head(digits) + carry) % Radix>>
            \o Carry(Tail(digits), (Head(digits) + carry) \div Radix)

Digit(a, i) == IF i <= Len(a) THEN a[i] ELSE 0

Longer(a, b) == IF Len(a) >= Len(b) THEN Len(a) ELSE Len(b)

BigOf(n) == Carry(<<>>, n)

BigTimes(a, m) == Carry([i \in 1..Len(a) |-> a[i] * m], 0)

BigPlus(a, b) ==
    Carry([i \in 1..Longer(a, b) |-> Digit(a, i) + Digit(b, i)], 0)

BigIsZero(a) == \A i \in 1..Len(a) : a[i] = 0

BigLess(a, b) ==
    \E i \in 1..Longer(a, b) :
        /\ Digit(a, i) < Digit(b, i)
        /\ \A j \in (i + 1)..Longer(a, b) : Digit(a, j) = Digit(b, j)

\* A fraction against a whole number.
Exceeds(x, n) == BigLess(BigTimes(x.den, n), x.num)

Below(x, n) == BigLess(x.num, BigTimes(x.den, n))

\* xs[:n]
first(xs, n) == SubSeq(xs, 1, IF n <= Len(xs) THEN n ELSE Len(xs))

RECURSIVE sum(_)
sum(xs) == IF xs = <<>> THEN 0 ELSE Head(xs) + sum(Tail(xs))

\* [closes[i] - closes[i - 1] for i in range(1, len(closes))]
deltas_of(closes) ==
    [i \in 1..(Len(closes) - 1) |-> closes[i + 1] - closes[i]]

\* A gain that counts a fall as well.
gain_of_magnitude(d) == IF d > 0 THEN d ELSE -d

\* d if d > 0 else 0.0, and max(d, 0.0)
gain_of(d) == IF d > 0 THEN d ELSE 0

\* -d if d < 0 else 0.0, and max(-d, 0.0)
loss_of(d) == IF d < 0 THEN -d ELSE 0

\* The average of compute_rsi after the first k of the changes xs, as the
\* numerator n over the denominator scale: the seed sum(xs[:period]) / period
\* and then, for each further x, avg = (avg * (period - 1) + x) / period.
\* The denominator is a power of period and is the same for the gains and
\* the losses of one series.
RECURSIVE wilder_average(_, _, _)
wilder_average(xs, period, k) ==
    IF k <= period
    THEN [n |-> BigOf(sum(first(xs, period))), scale |-> BigOf(period)]
    ELSE LET avg == wilder_average(xs, period, k - 1)
         IN  IF avg.scale = <<>>  \* never; has TLC compute avg first
             THEN avg
             ELSE [n |-> BigPlus(BigTimes(avg.n, period - 1),
                                 BigTimes(avg.scale, xs[k])),
                   scale |-> BigTimes(avg.scale, period)]

\* 100 * rs, the ratio without its normalisation.
rsi_value_ratio(avg_gain, avg_loss) ==
    IF BigIsZero(avg_loss) THEN [num |-> BigOf(100), den |-> BigOf(1)]
    ELSE [num |-> BigTimes(avg_gain, 100), den |-> avg_loss]

\* The last three lines of compute_rsi, on the numerators of avg_gain and
\* avg_loss over their common denominator: 100.0 when avg_loss == 0, else
\* 100 - 100 / (1 + avg_gain / avg_loss), which is
\* 100 * avg_gain / (avg_gain + avg_loss).
rsi_value(avg_gain, avg_loss) ==
    IF BigIsZero(avg_loss) THEN [num |-> BigOf(100), den |-> BigOf(1)]
    ELSE [num |-> BigTimes(avg_gain, 100), den |-> BigPlus(avg_gain, avg_loss)]

rsi_min_closes(period) == period + 1

\* What an indicator gives: the exception it raises, or its value.
IndicatorRaises(e) == [raised |-> e]

IndicatorReturns(value) == [raised |-> "", value |-> value]

compute_rsi(closes, period) ==
    IF Len(closes) < rsi_min_closes(period)
    THEN IndicatorRaises("ValueError")
    ELSE LET deltas == deltas_of(closes)
             gains == [i \in 1..Len(deltas) |-> gain_of(deltas[i])]
             losses == [i \in 1..Len(deltas) |-> loss_of(deltas[i])]
             avg_gain == wilder_average(gains, period, Len(deltas))
             avg_loss == wilder_average(losses, period, Len(deltas))
         IN  IndicatorReturns(rsi_value(avg_gain.n, avg_loss.n))

\* A length test that lets one bar too few through.
adx_min_bars_short(period) == 2 * period

adx_min_bars(period) == 2 * period + 1

\* len(wilder_smooth(data, period)) for a list of this length: the seed and
\* one element for each i in range(period, len(data)).
wilder_smooth_len(len, period) ==
    IF len >= period THEN 1 + (len - period) ELSE 1

\* compute_adx on series of this many bars.  Its two raise statements are
\* decided by lengths alone: n < 2 * period + 1, and len(dx_list) < period
\* where dx_list is as long as the smoothed true range.  The divisions are
\* guarded (atr[i] == 0, di_sum != 0); the value itself is not computed.
compute_adx(bars, period) ==
    IF bars < adx_min_bars(period)
    THEN IndicatorRaises("ValueError")
    ELSE LET tr_len == bars - 1
             dx_len == wilder_smooth_len(tr_len, period)
         IN  IF dx_len < period
             THEN IndicatorRaises("ValueError")
             ELSE IndicatorReturns("adx")

\* compute_bollinger: the middle band, sum(window) / period over the last
\* period closes; the two bands around it are not computed.
compute_bollinger(closes, period) ==
    IF Len(closes) < period
    THEN IndicatorRaises("ValueError")
    ELSE LET window == SubSeq(closes, Len(closes) - period + 1, Len(closes))
         IN  IndicatorReturns([num |-> BigOf(sum(window)),
                               den |-> BigOf(period)])

get_market_regime(adx_value) ==
    IF adx_value >= ADX_THRESHOLD THEN "TRENDING" ELSE "CHOPPY"

\* A decision that asks for a trend before it lets a position out.
generate_signal_trend_first(rsi, ls_ratio, whale_net_vol, regime) ==
    IF regime # "TRENDING" THEN "HOLD"
    ELSE IF rsi > 70 THEN "SELL"
    ELSE IF /\ rsi < RSI_OVERSOLD
            /\ ls_ratio < LS_RATIO_THRESHOLD
            /\ whale_net_vol > WHALE_NET_VOL_MIN
         THEN "BUY"
    ELSE "HOLD"

generate_signal(rsi, ls_ratio, whale_net_vol, regime) ==
    IF rsi > 70 THEN "SELL"
    ELSE IF regime # "TRENDING" THEN "HOLD"
    ELSE IF /\ rsi < RSI_OVERSOLD
            /\ ls_ratio < LS_RATIO_THRESHOLD
            /\ whale_net_vol > WHALE_NET_VOL_MIN
         THEN "BUY"
    ELSE "HOLD"

\* The number of positional parameters generate_signal declares.
generate_signal_arity == 4

----------------------------------------------------------------------------
(* execution.py *)

\* The literal limit check_circuit_breaker compares the streak with.
BreakerLimit == 3

\* A gate that lets one more loss through than the limit.
check_circuit_breaker_late ==
    IF is_on_cooldown THEN FALSE
    ELSE IF get_consecutive_losses > BreakerLimit THEN FALSE
    ELSE TRUE

\* A gate that looks at the cooldown alone.
check_circuit_breaker_cooldown_only == ~is_on_cooldown

check_circuit_breaker ==
    IF is_on_cooldown THEN FALSE
    ELSE IF get_consecutive_losses >= BreakerLimit THEN FALSE
    ELSE TRUE

has_position(symbol) == symbol \in DOMAIN positions

\* x / y for y # 0; the quotient is exact wherever the model evaluates it.
Quotient(x, y) == IF y > 0 THEN x \div y ELSE -(x \div (-y))

\* A profit in price points, never divided by the entry.
simulate_pnl_undivided(entry, exit_price, size_usd, side) ==
    IF side = "BUY" THEN (exit_price - entry) * size_usd ELSE 0

\* A profit with the sign of a short position.
simulate_pnl_short(entry, exit_price, size_usd, side) ==
    IF side = "BUY"
    THEN Quotient((entry - exit_price) * size_usd, entry)
    ELSE 0

\* simulate_pnl; entry = 0 on side "BUY" raises ZeroDivisionError.
simulate_pnl(entry, exit_price, size_usd, side) ==
    IF side = "BUY"
    THEN Quotient((exit_price - entry) * size_usd, entry)
    ELSE 0

\* The result dict execute_trade starts from; size_usd and trade_id are 0
\* where the dict does not carry the key.
BaseResult(signal, current_price, symbol) ==
    [action |-> "NONE", signal |-> signal, symbol |-> symbol,
     price |-> current_price, pnl |-> 0, blocked |-> FALSE,
     timestamp |-> now, size_usd |-> 0, trade_id |-> 0]

\* The call raised: nothing is returned.
NoResult ==
    [action |-> "NONE", signal |-> "", symbol |-> "", price |-> 0, pnl |-> 0,
     blocked |-> FALSE, timestamp |-> 0, size_usd |-> 0, trade_id |-> 0]

Returns(r) == result' = r /\ raised' = ""

Raises(e) == result' = NoResult /\ raised' = e

\* The line-112 test without its look at the portfolio.
opens_position_always(signal, symbol) == signal = "BUY"

\* signal == "BUY" and symbol not in self.positions
opens_position(signal, symbol) ==
    signal = "BUY" /\ symbol \notin DOMAIN positions

\* signal == "SELL" and symbol in self.positions
closes_position(signal, symbol) ==
    signal = "SELL" /\ symbol \in DOMAIN positions

\* A close that empties the whole portfolio.
del_position_all(symbol) == <<>>

\* del self.positions[symbol]
del_position(symbol) ==
    [s \in DOMAIN positions \ {symbol} |-> positions[s]]

\* self.positions[symbol] = {"side": "BUY", "entry": ..., "size_usd": ...}
set_position(symbol, current_price, size_usd) ==
    [s \in DOMAIN positions \cup {symbol} |->
        IF s = symbol
        THEN [side |-> "BUY", entry |-> current_price, size_usd |-> size_usd]
        ELSE positions[s]]

\* A size that is the configured trade size whatever the balance.
open_size_full == TRADE_SIZE_USD

\* min(TRADE_SIZE_USD, self.balance)
open_size == IF TRADE_SIZE_USD <= balance THEN TRADE_SIZE_USD ELSE balance

\* A close that drops the position before it computes the pnl.
close_fails_dropping(symbol, e) ==
    /\ Raises(e)
    /\ positions' = del_position(symbol)
    /\ UNCHANGED <<store, balance>>

\* simulate_pnl raises inside the close, before the balance is credited:
\* the exception leaves execute_trade and nothing has been assigned.
close_fails(symbol, e) ==
    /\ Raises(e)
    /\ UNCHANGED <<store, portfolio>>

execute_trade(signal, current_price, symbol) ==
    LET base == BaseResult(signal, current_price, symbol) IN
    IF ~check_circuit_breaker
    THEN /\ Returns([base EXCEPT !.action = "BLOCKED_BY_CIRCUIT_BREAKER",
                                 !.blocked = TRUE])
         /\ UNCHANGED <<store, portfolio>>
    ELSE IF signal = "HOLD"
    THEN /\ Returns([base EXCEPT !.action = "HOLD"])
         /\ UNCHANGED <<store, portfolio>>
    ELSE IF opens_position(signal, symbol)
    THEN LET size_usd == open_size IN
         IF size_usd <= 0
         THEN /\ Returns([base EXCEPT !.action = "INSUFFICIENT_BALANCE"])
              /\ UNCHANGED <<store, portfolio>>
         ELSE /\ positions' = set_position(symbol, current_price, size_usd)
              /\ balance' = balance - size_usd
              /\ Returns([base EXCEPT !.action = "OPENED_LONG",
                                      !.size_usd = size_usd])
              /\ UNCHANGED store
    ELSE IF closes_position(signal, symbol)
    THEN LET pos == positions[symbol] IN
         IF pos.side = "BUY" /\ pos.entry = 0
         THEN close_fails(symbol, "ZeroDivisionError")
         ELSE LET pnl == simulate_pnl(pos.entry, current_price,
                                      pos.size_usd, pos.side) IN
              \* the journal is followed up to MaxTrades rows, and past
              \* them for a close made at the loss limit
              /\ \/ Len(trades) < MaxTrades
                 \/ consecutive_losses >= MAX_CONSECUTIVE_LOSSES
              /\ balance' = balance + pos.size_usd + pnl
              /\ log_trade("SELL", current_price, pos.size_usd, pnl)
              /\ positions' = del_position(symbol)
              /\ Returns([base EXCEPT !.action = "CLOSED_LONG", !.pnl = pnl,
                                      !.trade_id = Len(trades) + 1])
    ELSE /\ Returns([base EXCEPT !.action = "NO_ACTION"])
         /\ UNCHANGED <<store, portfolio>>

\* execute_trade while the journal answers reads and refuses writes:
\* log_trade raises sqlite3.OperationalError before it commits anything.
execute_trade_journal_down(signal, current_price, symbol) ==
    IF /\ check_circuit_breaker
       /\ closes_position(signal, symbol)
       /\ positions[symbol].entry # 0
    THEN LET pos == positions[symbol] IN
         /\ balance' = balance + pos.size_usd
                          + simulate_pnl(pos.entry, current_price,
                                         pos.size_usd, pos.side)
         /\ Raises("OperationalError")
         /\ UNCHANGED <<store, positions>>
    ELSE execute_trade(signal, current_price, symbol)

----------------------------------------------------------------------------
(* execution.py on binary64 *)
\* CPython's float is IEEE 754 binary64: a sign, a significand of mant_dig
\* bits and a power of two; every operation rounds its exact result to the
\* nearest such number, ties to the even significand.  The amounts of the
\* program are far from the ends of the exponent range, which is left out.
\* A significand is a sequence of limbs of LimbBits bits, lowest first, with
\* no zero limb on top; a float is (-1)^neg * mag * 2^exp with mag odd, and
\* zero has mag empty.
mant_dig == 53
LimbBits == 15
Limb == 2 ^ LimbBits

RECURSIVE limbs_of(_)
limbs_of(n) == IF n = 0 THEN <<>> ELSE <<n % Limb>> \o limbs_of(n \div Limb)

RECURSIVE limb_trim(_)
limb_trim(a) ==
    IF a = <<>> THEN <<>>
    ELSE IF a[Len(a)] # 0 THEN a
    ELSE limb_trim(SubSeq(a, 1, Len(a) - 1))

limb_at(a, i) == IF i <= Len(a) THEN a[i] ELSE 0

RECURSIVE add_from(_, _, _, _)
add_from(a, b, i, carry) ==
    IF i > Len(a) /\ i > Len(b)
    THEN IF carry = 0 THEN <<>> ELSE <<carry>>
    ELSE LET s == limb_at(a, i) + limb_at(b, i) + carry
         IN  <<s % Limb>> \o add_from(a, b, i + 1, s \div Limb)

limb_add(a, b) == add_from(a, b, 1, 0)

RECURSIVE sub_from(_, _, _, _)
sub_from(a, b, i, borrow) ==
    IF i > Len(a) THEN <<>>
    ELSE LET d == a[i] - limb_at(b, i) - borrow
         IN  <<d % Limb>> \o sub_from(a, b, i + 1, IF d < 0 THEN 1 ELSE 0)

\* a - b for a >= b
limb_sub(a, b) == limb_trim(sub_from(a, b, 1, 0))

RECURSIVE less_from(_, _, _)
less_from(a, b, i) ==
    IF i = 0 THEN FALSE
    ELSE IF a[i] # b[i] THEN a[i] < b[i]
    ELSE less_from(a, b, i - 1)

limb_less(a, b) ==
    IF Len(a) # Len(b) THEN Len(a) < Len(b) ELSE less_from(a, b, Len(a))

RECURSIVE times_from(_, _, _, _)
times_from(a, m, i, carry) ==
    IF i > Len(a)
    THEN IF carry = 0 THEN <<>> ELSE <<carry>>
    ELSE LET p == a[i] * m + carry
         IN  <<p % Limb>> \o times_from(a, m, i + 1, p \div Limb)

\* a * m for one limb m
limb_times(a, m) == IF m = 0 THEN <<>> ELSE times_from(a, m, 1, 0)

shift_limbs(a, w) == IF a = <<>> THEN <<>> ELSE [i \in 1..w |-> 0] \o a

RECURSIVE limb_mul(_, _)
limb_mul(a, b) ==
    IF b = <<>> THEN <<>>
    ELSE limb_add(limb_times(a, b[1]), shift_limbs(limb_mul(a, Tail(b)), 1))

\* a * 2^k
shift_left(a, k) ==
    shift_limbs(limb_times(a, 2 ^ (k % LimbBits)), k \div LimbBits)

RECURSIVE halve_from(_, _, _, _)
halve_from(a, m, i, rem) ==
    IF i = 0 THEN <<>>
    ELSE LET cur == rem * Limb + a[i]
         IN  halve_from(a, m, i - 1, cur % m) \o <<cur \div m>>

\* a \div 2^k
shift_right(a, k) ==
    LET high == SubSeq(a, k \div LimbBits + 1, Len(a))
    IN  limb_trim(halve_from(high, 2 ^ (k % LimbBits), Len(high), 0))

bit_length(a) ==
    IF a = <<>> THEN 0
    ELSE LimbBits * (Len(a) - 1)
           + (CHOOSE k \in 1..LimbBits :
                  2 ^ (k - 1) <= a[Len(a)] /\ a[Len(a)] < 2 ^ k)

\* The number of zero bits below the lowest one bit of a, a not zero.
low_zero_bits(a) ==
    LET w == CHOOSE n \in 0..(Len(a) - 1) :
                 a[n + 1] # 0 /\ \A i \in 1..n : a[i] = 0
    IN  LimbBits * w
          + (CHOOSE k \in 0..(LimbBits - 1) : a[w + 1] % 2 ^ (k + 1) = 2 ^ k)

\* The largest q with q * d <= cur, found one bit at a time; q is one limb.
RECURSIVE quotient_limb(_, _, _, _)
quotient_limb(cur, d, q, step) ==
    IF step = 0 THEN q
    ELSE IF limb_less(cur, limb_times(d, q + step))
    THEN quotient_limb(cur, d, q, step \div 2)
    ELSE quotient_limb(cur, d, q + step, step \div 2)

\* Quotient and remainder of the top k limbs of n by d, d not zero.
RECURSIVE limb_divmod(_, _, _)
limb_divmod(n, d, k) ==
    IF k = 0 THEN [q |-> <<>>, r |-> <<>>]
    ELSE LET prev == limb_divmod(n, d, k - 1)
             cur == limb_trim(<<n[Len(n) - k + 1]>> \o prev.r)
             digit == quotient_limb(cur, d, 0, Limb \div 2)
         IN  [q |-> limb_trim(<<digit>> \o prev.q),
              r |-> limb_sub(cur, limb_times(d, digit))]

float_zero == [neg |-> FALSE, mag |-> <<>>, exp |-> 0]

\* The number (-1)^neg * mag * 2^exp, whatever its length.
dyadic(neg, mag, exp) ==
    IF mag = <<>> THEN float_zero
    ELSE LET z == low_zero_bits(mag)
         IN  [neg |-> neg, mag |-> shift_right(mag, z), exp |-> exp + z]

\* Round to nearest, ties to even.
float_round(x) ==
    IF bit_length(x.mag) <= mant_dig THEN x
    ELSE LET r == bit_length(x.mag) - mant_dig
             kept == shift_right(x.mag, r)
             rest == limb_sub(x.mag, shift_left(kept, r))
             half == shift_left(<<1>>, r - 1)
             up == limb_less(half, rest) \/ (rest = half /\ kept[1] % 2 = 1)
         IN  dyadic(x.neg, IF up THEN limb_add(kept, <<1>>) ELSE kept,
                    x.exp + r)

\* float(n) of an int
float_of(n) == dyadic(n < 0, limbs_of(IF n < 0 THEN -n ELSE n), 0)

float_neg(x) == IF x.mag = <<>> THEN x ELSE [x EXCEPT !.neg = ~x.neg]

\* x + y in the reals
exact_add(x, y) ==
    LET e == IF x.exp < y.exp THEN x.exp ELSE y.exp
        xm == shift_left(x.mag, x.exp - e)
        ym == shift_left(y.mag, y.exp - e)
    IN  IF x.neg = y.neg THEN dyadic(x.neg, limb_add(xm, ym), e)
        ELSE IF limb_less(xm, ym) THEN dyadic(y.neg, limb_sub(ym, xm), e)
        ELSE dyadic(x.neg, limb_sub(xm, ym), e)

float_add(x, y) == float_round(exact_add(x, y))

float_sub(x, y) == float_round(exact_add(x, float_neg(y)))

float_mul(x, y) ==
    float_round(dyadic(x.neg # y.neg, limb_mul(x.mag, y.mag), x.exp + y.exp))

\* x / y for y not zero: enough quotient bits to round, and one more bit
\* below them for a remainder.
float_truediv(x, y) ==
    IF x.mag = <<>> THEN float_zero
    ELSE LET more == mant_dig + 2 + bit_length(y.mag) - bit_length(x.mag)
             s == IF more > 0 THEN more ELSE 0
             n == shift_left(x.mag, s)
             d == limb_divmod(n, y.mag, Len(n))
             e == x.exp - y.exp - s
         IN  IF d.r = <<>>
             THEN float_round(dyadic(x.neg # y.neg, d.q, e))
             ELSE float_round([neg |-> x.neg # y.neg,
                               mag |-> limb_add(shift_left(d.q, 1), <<1>>),
                               exp |-> e - 1])

float_lt(x, y) == exact_add(x, float_neg(y)).neg

\* simulate_pnl on floats; entry is not zero.
simulate_pnl_binary64(entry, exit_price, size_usd, side) ==
    IF side = "BUY"
    THEN float_mul(float_truediv(float_sub(exit_price, entry), entry),
                   size_usd)
    ELSE float_zero

\* min(TRADE_SIZE_USD, self.balance) with the balance a float
open_size_binary64 ==
    IF float_lt(balance, float_of(TRADE_SIZE_USD))
    THEN balance
    ELSE float_of(TRADE_SIZE_USD)

\* log_trade of a float pnl: the row keeps the float, the streak looks at
\* its sign.
log_trade_binary64(side, price, size_usd, pnl) ==
    /\ trades' = Append(trades, TradeRow(side, price, size_usd, pnl))
    /\ consecutive_losses' = losses_after(IF pnl.neg THEN -1 ELSE 0)
    /\ cooldown_until' = cooldown_after(IF pnl.neg THEN -1 ELSE 0)

\* execute_trade with balance, size_usd and pnl held as binary64, as CPython
\* holds them, for prices whose quotient binary64 has to round; prices are
\* ints.
execute_trade_binary64(signal, current_price, symbol) ==
    LET base == BaseResult(signal, current_price, symbol) IN
    IF ~check_circuit_breaker
    THEN /\ Returns([base EXCEPT !.action = "BLOCKED_BY_CIRCUIT_BREAKER",
                                 !.blocked = TRUE])
         /\ UNCHANGED <<store, portfolio>>
    ELSE IF signal = "HOLD"
    THEN /\ Returns([base EXCEPT !.action = "HOLD"])
         /\ UNCHANGED <<store, portfolio>>
    ELSE IF opens_position(signal, symbol)
    THEN LET size_usd == open_size_binary64 IN
         IF ~float_lt(float_zero, size_usd)
         THEN /\ Returns([base EXCEPT !.action = "INSUFFICIENT_BALANCE"])
              /\ UNCHANGED <<store, portfolio>>
         ELSE /\ positions' = set_position(symbol, current_price, size_usd)
              /\ balance' = float_sub(balance, size_usd)
              /\ Returns([base EXCEPT !.action = "OPENED_LONG",
                                      !.size_usd = size_usd])
              /\ UNCHANGED store
    ELSE IF closes_position(signal, symbol)
    THEN LET pos == positions[symbol] IN
         IF pos.side = "BUY" /\ pos.entry = 0
         THEN close_fails(symbol, "ZeroDivisionError")
         ELSE LET pnl == simulate_pnl_binary64(float_of(pos.entry),
                                               float_of(current_price),
                                               pos.size_usd, pos.side) IN
              /\ Len(trades) < MaxTrades
              /\ balance' = float_add(balance, float_add(pos.size_usd, pnl))
              /\ log_trade_binary64("SELL", current_price, pos.size_usd, pnl)
              /\ positions' = del_position(symbol)
              /\ Returns([base EXCEPT !.action = "CLOSED_LONG", !.pnl = pnl,
                                      !.trade_id = Len(trades) + 1])
    ELSE /\ Returns([base EXCEPT !.action = "NO_ACTION"])
         /\ UNCHANGED <<store, portfolio>>

----------------------------------------------------------------------------
(* news.py *)

\* A key is set in config.py, and it is not the placeholder.
api_key_configured == TRUE

BULLISH_KEYWORDS ==
    {"partnership", "launch", "mainnet", "blackrock",
     "etf", "integration", "approval", "upgrade"}

BEARISH_KEYWORDS ==
    {"hack", "exploit", "delist", "ban",
     "lawsuit", "breach", "scam", "fraud"}

\* The rows of SYMBOL_NAMES for the symbols of the model.
SYMBOL_NAMES == [BTC |-> {"bitcoin"}, ETH |-> {"ethereum"}]

\* symbol.replace("USDT", "").replace("BUSD", "").upper()
base_of(symbol) ==
    CASE symbol = "BTCUSDT" -> "BTC"
      [] symbol = "ETHUSDT" -> "ETH"

\* base.lower()
lower_of(base) ==
    CASE base = "BTC" -> "btc"
      [] base = "ETH" -> "eth"

search_terms(symbol) ==
    {lower_of(base_of(symbol))} \cup SYMBOL_NAMES[base_of(symbol)]

\* A title is the set of its lower-case words; a term is in a title when
\* it is part of one of the words.
InWord(term, word) == term = word \/ <<term, word>> \in {<<"eth", "ethereum">>}

InTitle(term, title) == \E word \in title : InWord(term, word)

\* A currency entry whose "code" is JSON null.
JsonNull == "<null>"

\* Python values of self.cache: a list of articles, or None.
PyList(items) == [type |-> "list", items |-> items]

PyNone == [type |-> "NoneType", items |-> <<>>]

Article(currencies, title) == [currencies |-> currencies, title |-> title]

\* What the feed can answer: the request fails, the body does not parse
\* (resp.json() then raises a RequestException too), the body has another
\* shape than expected, or it carries articles.
RequestExceptions == {"ConnectionError", "HTTPError", "JSONDecodeError"}

NewsLists ==
    {<<>>,
     <<Article({"BTC"}, {"exchange", "hack"})>>,
     <<Article({}, {"bitcoin", "etf"})>>,
     <<Article({}, {"bitcoin", "etf"}), Article({"BTC"}, {"exchange", "hack"})>>,
     <<Article({"ETH"}, {"upgrade", "exploit"})>>,
     <<Article({JsonNull}, {"ethereum", "launch"})>>}

Responses ==
    {[outcome |-> o, articles |-> <<>>] :
        o \in RequestExceptions
                \cup {"not_an_object", "results_null", "results_missing"}}
    \cup {[outcome |-> "results", articles |-> l] : l \in NewsLists}

\* update_cache sends a request: the interval has elapsed and a key is set.
update_cache_requests ==
    ~(epoch - last_update < NEWS_POLL_INTERVAL_SEC) /\ api_key_configured

\* update_cache stores the answer: data.get("results", []) went through.
update_cache_stores(response) ==
    /\ update_cache_requests
    /\ response.outcome \in {"results_null", "results_missing", "results"}

cache_after_update(response) ==
    IF ~update_cache_stores(response) THEN cache
    ELSE IF response.outcome = "results_null" THEN PyNone
    ELSE PyList(response.articles)

\* requests.RequestException is the one exception update_cache catches;
\* a body that is not a JSON object fails on data.get.
update_cache_raises(response) ==
    update_cache_requests /\ response.outcome = "not_an_object"

is_relevant(article, symbol) ==
    \/ base_of(symbol) \in article.currencies
    \/ \E term \in search_terms(symbol) : InTitle(term, article.title)

keyword_count(relevant, keywords) ==
    Cardinality({i \in 1..Len(relevant) :
                    \E kw \in keywords : InTitle(kw, relevant[i].title)})

\* The sentiment get_sentiment works out of a well-formed cache.
sentiment_of(items, symbol) ==
    LET relevant == SelectSeq(items, LAMBDA a : is_relevant(a, symbol))
        bullish_count == keyword_count(relevant, BULLISH_KEYWORDS)
        bearish_count == keyword_count(relevant, BEARISH_KEYWORDS)
    IN  IF relevant = <<>> THEN "NEUTRAL"
        ELSE IF bullish_count > bearish_count THEN "BULLISH"
        ELSE IF bearish_count > bullish_count THEN "BEARISH"
        ELSE "NEUTRAL"

get_sentiment(symbol, response) ==
    LET after == cache_after_update(response) IN
    /\ requested' = IF update_cache_requests
                    THEN Append(requested, epoch) ELSE requested
    /\ cache' = after
    /\ last_update' = IF update_cache_stores(response)
                      THEN epoch ELSE last_update
    /\ IF update_cache_raises(response)
       THEN Raises("AttributeError")
       ELSE IF after.type = "NoneType"
       THEN Raises("TypeError")
       ELSE IF \E i \in 1..Len(after.items) :
                   JsonNull \in after.items[i].currencies
       THEN Raises("AttributeError")
       ELSE Returns([sentiment |-> sentiment_of(after.items, symbol)])

----------------------------------------------------------------------------
(* main.py *)

\* What the collaborators of one cycle deliver: whether the candle fetch
\* succeeds, the number of bars, the last close, the ADX and RSI of the
\* series, and the ratio, volume and sentiment feeds.
Feed(ok, bars, close, adx, rsi, ls_ratio, whale_vol, sentiment) ==
    [fetch_ok |-> ok, bars |-> bars, close |-> close, adx |-> adx, rsi |-> rsi,
     ls_ratio |-> ls_ratio, whale_vol |-> whale_vol, sentiment |-> sentiment]

Feeds ==
    {Feed(FALSE, 0, 0, 0, 0, 10, 0, "NEUTRAL"),
     Feed(TRUE, 0, 0, 0, 0, 10, 0, "NEUTRAL"),
     Feed(TRUE, 2 * ADX_PERIOD, 2, 0, 0, 10, 0, "NEUTRAL")}
    \cup {Feed(TRUE, KLINE_LIMIT, 2, adx, rsi, 6, 100, sentiment) :
            adx \in {ADX_THRESHOLD - 1, ADX_THRESHOLD},
            rsi \in {25, 80},
            sentiment \in {"BEARISH", "NEUTRAL"}}

\* The number of positional arguments run_cycle passes to generate_signal.
run_cycle_signal_args == 5

\* A generate_signal that takes the sentiment as well.
generate_signal_call_accepted == FALSE

\* The call of generate_signal raises TypeError when the number of
\* arguments is not the number of parameters.
generate_signal_call_raises == run_cycle_signal_args # generate_signal_arity

CycleResult(action, symbol, price) ==
    [NoResult EXCEPT !.action = action, !.symbol = symbol, !.price = price]

AllSteps ==
    <<"fetch", "adx", "regime", "rsi", "bollinger", "ls_ratio", "whale_vol",
      "sentiment", "signal", "execute">>

run_cycle(symbol, feed) ==
    IF ~feed.fetch_ok
    THEN /\ steps' = SubSeq(AllSteps, 1, 1)
         /\ Returns(CycleResult("FETCH_ERROR", symbol, 0))
         /\ UNCHANGED <<store, portfolio>>
    ELSE IF feed.bars = 0
    THEN /\ steps' = SubSeq(AllSteps, 1, 1)
         /\ Raises("IndexError")
         /\ UNCHANGED <<store, portfolio>>
    ELSE IF compute_adx(feed.bars, ADX_PERIOD).raised # ""
    THEN /\ steps' = SubSeq(AllSteps, 1, 2)
         /\ Raises("ValueError")
         /\ UNCHANGED <<store, portfolio>>
    ELSE IF get_market_regime(feed.adx) = "CHOPPY"
    THEN /\ steps' = SubSeq(AllSteps, 1, 3)
         /\ Returns(CycleResult("SKIP_CHOPPY", symbol, feed.close))
         /\ UNCHANGED <<store, portfolio>>
    ELSE IF generate_signal_call_raises
    THEN /\ steps' = SubSeq(AllSteps, 1, 9)
         /\ Raises("TypeError")
         /\ UNCHANGED <<store, portfolio>>
    ELSE /\ steps' = AllSteps
         /\ execute_trade(generate_signal(feed.rsi, feed.ls_ratio,
                                          feed.whale_vol,
                                          get_market_regime(feed.adx)),
                          feed.close, symbol)

\* What scan_top_pairs gives run_auto: the top pairs (["BTCUSDT"] when the
\* ticker request fails), or an exception from a malformed ticker list.
\* The symbols of the tickers the exchange lists, and the ticker lists it
\* answers with; each is shorter than TOP_PAIRS_COUNT, so that the cut after
\* the sort by volume drops nothing.
TickerSymbols == {"BTCUSDT", "ETHUSDT", "USDCUSDT", "ETHBTC"}

TickerLists ==
    {{}, {"USDCUSDT", "ETHBTC"}, {"BTCUSDT", "USDCUSDT"}, TickerSymbols}

\* str.endswith("USDT") on the ticker symbols.
ends_with_usdt(symbol) == symbol \in {"BTCUSDT", "ETHUSDT", "USDCUSDT"}

\* scan_top_pairs on a ticker list that was fetched.
scan_top_pairs(tickers) ==
    {symbol \in tickers : ends_with_usdt(symbol) /\ symbol \notin BLACKLIST}

\* What scan_top_pairs gives run_auto: the top pairs of the ticker list,
\* ["BTCUSDT"] when the ticker request fails, or an exception from a
\* malformed ticker list.
Scans ==
    {[raises |-> FALSE, top |-> scan_top_pairs(tickers)] :
        tickers \in TickerLists}
    \cup {[raises |-> FALSE, top |-> {"BTCUSDT"}]}
    \cup {[raises |-> TRUE, top |-> {}]}

NoScan == [raises |-> FALSE, top |-> {}]

\* A pass over the top pairs only.
pass_targets_market_only(top) == top

\* The targets of a pass: the top pairs merged with the held positions.
pass_targets(top) == top \cup DOMAIN positions

\* How a run_cycle ended: the exception it raised or the action it returned.
outcome_of(exc, res) == IF exc # "" THEN exc ELSE res.action

cycled_symbols == {cycled[i].symbol : i \in DOMAIN cycled}

\* A pass that an exception in one symbol ends.
rest_of_pass_aborting(sym, exc) ==
    IF exc # "" THEN {} ELSE (targets \ cycled_symbols) \ {sym}

\* The targets still to come after sym: the for loop goes to the next one
\* whether run_cycle returned or the except clause logged its Exception.
rest_of_pass(sym, exc) == (targets \ cycled_symbols) \ {sym}

\* run_auto, from the top of the loop to the for statement.
begin_pass(scan) ==
    /\ passes' = passes + 1
    /\ cycled' = <<>>
    /\ scanned' = scan
    /\ targets' = IF scan.raises THEN {} ELSE pass_targets(scan.top)
    /\ pc' = IF targets' = {} THEN "sleep" ELSE "cycle"

\* run_auto, one turn of the for loop: run_cycle, then the pause of one
\* second that an exception skips.
cycle_target(sym, feed) ==
    /\ run_cycle(sym, feed)
    /\ cycled' = Append(cycled, [symbol |-> sym,
                                 outcome |-> outcome_of(raised', result')])
    /\ epoch' = IF raised' = "" THEN epoch + 1 ELSE epoch
    /\ pc' = IF rest_of_pass(sym, raised') = {} THEN "sleep" ELSE "cycle"
    /\ UNCHANGED <<targets, passes, scanned>>

----------------------------------------------------------------------------
(* The program as a state machine *)

NoCall == [op |-> "none"]

\* time.time() when the program starts: any time later than one polling
\* interval after the epoch.
StartEpoch == NEWS_POLL_INTERVAL_SEC

Init ==
    /\ now = 0
    /\ consecutive_losses = 0
    /\ cooldown_until = NoCooldown
    /\ trades = <<>>
    /\ balance = INITIAL_BALANCE_USD
    /\ positions = <<>>
    /\ call = NoCall
    /\ result = NoResult
    /\ raised = ""
    /\ steps = <<>>
    /\ epoch = StartEpoch
    /\ cache = PyList(<<>>)
    /\ last_update = 0
    /\ requested = <<>>
    /\ pc = "scan"
    /\ targets = {}
    /\ cycled = <<>>
    /\ passes = 0
    /\ scanned = NoScan

\* Time passes between calls.
Tick ==
    /\ now + TickHours <= MaxTime
    /\ now' = now + TickHours
    /\ UNCHANGED <<store, portfolio, call, result, raised, steps>>
    /\ UNCHANGED <<news_state, loop_state>>

ExecuteTradeCall(signal, current_price, symbol) ==
    /\ call' = [op |-> "execute_trade", signal |-> signal,
                price |-> current_price, symbol |-> symbol]
    /\ execute_trade(signal, current_price, symbol)
    /\ UNCHANGED <<now, steps, news_state, loop_state>>

ExecuteTrade ==
    \E signal \in Signals, current_price \in Prices, symbol \in Symbols :
        ExecuteTradeCall(signal, current_price, symbol)

\* execute_trade on one symbol, with prices that are zero, negative or far
\* apart.
ExecuteTradeExtreme ==
    \E signal \in Signals, current_price \in ExtremePrices :
        ExecuteTradeCall(signal, current_price, "BTCUSDT")

\* execute_trade with a quiet price and the price of a crash below zero;
\* positions are entered at the quiet price.
ExecuteTradeCrash ==
    \E signal \in Signals, current_price \in CrashPrices, symbol \in Symbols :
        /\ signal = "BUY" => current_price > 0
        /\ ExecuteTradeCall(signal, current_price, symbol)

\* execute_trade with prices that are zero or more, a worthless asset
\* included.
ExecuteTradeNonNegative ==
    \E signal \in Signals, current_price \in NonNegativePrices,
       symbol \in Symbols :
        ExecuteTradeCall(signal, current_price, symbol)

\* execute_trade on one symbol while the journal refuses writes.
ExecuteTradeJournalDownCall(signal, current_price) ==
    /\ balance < MaxBalance
    /\ call' = [op |-> "execute_trade", signal |-> signal,
                price |-> current_price, symbol |-> "BTCUSDT"]
    /\ execute_trade_journal_down(signal, current_price, "BTCUSDT")
    /\ UNCHANGED <<now, steps, news_state, loop_state>>

ExecuteTradeJournalDown ==
    \E signal \in Signals, current_price \in Prices :
        ExecuteTradeJournalDownCall(signal, current_price)

\* log_trade called on the journal directly.
LogTradeCall(current_price, pnl) ==
    /\ Len(trades) < MaxRows
    /\ call' = [op |-> "log_trade", side |-> "SELL", price |-> current_price,
                size_usd |-> TRADE_SIZE_USD, pnl |-> pnl]
    /\ log_trade("SELL", current_price, TRADE_SIZE_USD, pnl)
    /\ Returns([NoResult EXCEPT !.trade_id = Len(trades) + 1])
    /\ UNCHANGED <<now, portfolio, steps, news_state, loop_state>>

LogTrade == \E pnl \in LoggedPnls : LogTradeCall(1, pnl)

\* set_cooldown_until with None, a time that has come, a time ahead.
SetCooldownUntil ==
    \E dt \in {NoCooldown, now, now + TickHours} :
        /\ call' = [op |-> "set_cooldown_until", dt |-> dt]
        /\ set_cooldown_until(dt)
        /\ Returns(NoResult)
        /\ UNCHANGED <<now, portfolio, steps, news_state, loop_state>>

ResetCircuitBreaker ==
    /\ call' = [op |-> "reset_circuit_breaker"]
    /\ reset_circuit_breaker
    /\ Returns(NoResult)
    /\ UNCHANGED <<now, portfolio, steps, news_state, loop_state>>

\* A restart of the program: PaperTrader() on the store of the run before.
Restart ==
    /\ call' = [op |-> "PaperTrader"]
    /\ balance' = INITIAL_BALANCE_USD
    /\ positions' = <<>>
    /\ init_db
    /\ Returns(NoResult)
    /\ UNCHANGED <<now, steps, news_state, loop_state>>

RunCycleCall(symbol, feed) ==
    /\ call' = [op |-> "run_cycle", symbol |-> symbol, feed |-> feed]
    /\ run_cycle(symbol, feed)
    /\ UNCHANGED <<now, news_state, loop_state>>

RunCycle == \E symbol \in Symbols, feed \in Feeds : RunCycleCall(symbol, feed)

\* The trader over time: closes happen through execute_trade only.
Next ==
    \/ Tick
    \/ ExecuteTrade

Spec == Init /\ [][Next]_vars

\* The journal and the breaker state used directly.
NextBreaker ==
    \/ Tick
    \/ LogTrade
    \/ SetCooldownUntil
    \/ ResetCircuitBreaker

SpecBreaker == Init /\ [][NextBreaker]_vars

\* Analysis cycles beside direct trades.
NextCycle ==
    \/ ExecuteTrade
    \/ RunCycle

SpecCycle == Init /\ [][NextCycle]_vars

\* The trader under extreme prices.
NextExtreme == ExecuteTradeExtreme

SpecExtreme == Init /\ [][NextExtreme]_vars

\* The trader alone, on two symbols, with the clock standing still.
NextPortfolio == ExecuteTrade

SpecPortfolio == Init /\ [][NextPortfolio]_vars

\* The trader through a crash that takes nearly all of the balance.
NextCrash == ExecuteTradeCrash

SpecCrash == Init /\ [][NextCrash]_vars

\* The trader with a journal that sometimes refuses writes.
NextJournal ==
    \/ ExecuteTrade
    \/ ExecuteTradeJournalDown

SpecJournal == Init /\ [][NextJournal]_vars

\* The trader under prices that never go below zero.
NextNonNegative == ExecuteTradeNonNegative

SpecNonNegative == Init /\ [][NextNonNegative]_vars

\* get_sentiment, called for a symbol while the feed answers this way.
GetSentimentCall(symbol, response) ==
    /\ Len(requested) < MaxRequests
    /\ call' = [op |-> "get_sentiment", symbol |-> symbol,
                response |-> response]
    /\ get_sentiment(symbol, response)
    /\ UNCHANGED <<now, store, portfolio, steps, epoch, loop_state>>

GetSentiment ==
    \E symbol \in Symbols, response \in Responses :
        GetSentimentCall(symbol, response)

\* The time of one scan interval passes.
Wait ==
    /\ epoch + CHECK_INTERVAL_SEC <= MaxEpoch
    /\ epoch' = epoch + CHECK_INTERVAL_SEC
    /\ UNCHANGED <<now, store, portfolio, call, result, raised, steps>>
    /\ UNCHANGED <<cache, last_update, requested, loop_state>>

\* The news manager over time.
NextNews ==
    \/ Wait
    \/ GetSentiment

SpecNews == Init /\ [][NextNews]_vars

AutoScan ==
    \E scan \in Scans :
        /\ pc = "scan"
        /\ begin_pass(scan)
        /\ UNCHANGED <<now, store, portfolio, call, result, raised, steps>>
        /\ UNCHANGED news_state

AutoCycleCall(sym, feed) ==
    /\ pc = "cycle"
    /\ sym \in targets \ cycled_symbols
    /\ call' = [op |-> "run_cycle", symbol |-> sym, feed |-> feed]
    /\ cycle_target(sym, feed)
    /\ UNCHANGED <<now, cache, last_update, requested>>

AutoCycle ==
    \E sym \in TickerSymbols, feed \in Feeds : AutoCycleCall(sym, feed)

\* time.sleep(CHECK_INTERVAL_SEC), then the loop starts over.
AutoSleep ==
    /\ pc = "sleep"
    /\ passes < MaxPasses
    /\ epoch' = epoch + CHECK_INTERVAL_SEC
    /\ pc' = "scan"
    /\ UNCHANGED <<now, store, portfolio, call, result, raised, steps>>
    /\ UNCHANGED <<cache, last_update, requested, targets, cycled, passes>>
    /\ UNCHANGED scanned

\* run_auto.
NextAuto ==
    \/ AutoScan
    \/ AutoCycle
    \/ AutoSleep

SpecAuto == Init /\ [][NextAuto]_vars

\* Where a KeyboardInterrupt takes run_auto: raised inside the try statement
\* of the loop (the scan, a symbol's cycle and the pause after it) it
\* reaches the except clause, which logs and calls sys.exit(0); the sleep
\* between passes comes after the try statement, and there nothing catches
\* it: the interpreter prints the traceback and ends with status 130.
interrupted_at(where) ==
    IF where \in {"scan", "cycle"} THEN "shutdown" ELSE "traceback"

Interrupt ==
    /\ pc \in {"scan", "cycle", "sleep"}
    /\ call' = [op |-> "KeyboardInterrupt", at |-> pc]
    /\ pc' = interrupted_at(pc)
    /\ Raises(IF pc' = "shutdown" THEN "SystemExit" ELSE "KeyboardInterrupt")
    /\ UNCHANGED <<now, store, portfolio, steps, news_state>>
    /\ UNCHANGED <<targets, cycled, passes, scanned>>

\* run_auto under process-level interrupts.
NextInterrupt ==
    \/ AutoScan
    \/ AutoCycle
    \/ AutoSleep
    \/ Interrupt

SpecInterrupt == Init /\ [][NextInterrupt]_vars

\* The portfolio a pass of run_auto finds: positions are opened and closed
\* through execute_trade between the passes.
HoldTrade ==
    \E signal \in {"BUY", "SELL"}, symbol \in Symbols :
        /\ pc = "scan"
        /\ ExecuteTradeCall(signal, 1, symbol)

\* run_auto over a trader that holds positions.
NextHeld ==
    \/ HoldTrade
    \/ AutoScan
    \/ AutoCycle
    \/ AutoSleep

SpecHeld == Init /\ [][NextHeld]_vars

\* The --symbol arguments of the command line, and str.upper on them.
SymbolArguments == {"btcusdt", "ETHUSDT", "usdcusdt"}

upper_of(symbol) ==
    CASE symbol = "btcusdt" -> "BTCUSDT"
      [] symbol = "usdcusdt" -> "USDCUSDT"
      [] OTHER -> symbol

\* main with --symbol: run_manual runs one cycle on the symbol and the
\* program ends.
RunManualCall(argument, feed) ==
    /\ pc = "scan"
    /\ passes = 0
    /\ call' = [op |-> "run_cycle", symbol |-> upper_of(argument),
                feed |-> feed]
    /\ run_cycle(upper_of(argument), feed)
    /\ pc' = "exit"
    /\ UNCHANGED <<now, news_state, targets, cycled, passes, scanned>>

RunManual ==
    \E argument \in SymbolArguments, feed \in Feeds :
        RunManualCall(argument, feed)

\* main: one run in manual mode, or run_auto.
NextModes ==
    \/ RunManual
    \/ AutoScan
    \/ AutoCycle
    \/ AutoSleep

SpecModes == Init /\ [][NextModes]_vars

\* The trader with the manual controls of the breaker.
NextReset ==
    \/ ExecuteTrade
    \/ SetCooldownUntil
    \/ ResetCircuitBreaker

SpecReset == Init /\ [][NextReset]_vars

\* execute_trade on one symbol.
ExecuteTradeOne ==
    \E signal \in Signals, current_price \in Prices :
        ExecuteTradeCall(signal, current_price, "BTCUSDT")

\* The journal written directly and through the trader, with resets.
NextStreak ==
    \/ LogTrade
    \/ ResetCircuitBreaker
    \/ ExecuteTradeOne

SpecStreak == Init /\ [][NextStreak]_vars

\* The trader on prices that do not divide one another.
InitBinary64 ==
    /\ now = 0
    /\ consecutive_losses = 0
    /\ cooldown_until = NoCooldown
    /\ trades = <<>>
    /\ balance = float_of(INITIAL_BALANCE_USD)
    /\ positions = <<>>
    /\ call = NoCall
    /\ result = NoResult
    /\ raised = ""
    /\ steps = <<>>
    /\ epoch = StartEpoch
    /\ cache = PyList(<<>>)
    /\ last_update = 0
    /\ requested = <<>>
    /\ pc = "scan"
    /\ targets = {}
    /\ cycled = <<>>
    /\ passes = 0
    /\ scanned = NoScan

ExecuteTradeBinary64 ==
    \E signal \in Signals, current_price \in UnevenPrices :
        /\ call' = [op |-> "execute_trade", signal |-> signal,
                    price |-> current_price, symbol |-> "BTCUSDT"]
        /\ execute_trade_binary64(signal, current_price, "BTCUSDT")
        /\ UNCHANGED <<now, steps, news_state, loop_state>>

NextBinary64 == ExecuteTradeBinary64

SpecBinary64 == InitBinary64 /\ [][NextBinary64]_vars

\* The trader across restarts of the program.
NextRestart ==
    \/ ExecuteTrade
    \/ Restart

SpecRestart == Init /\ [][NextRestart]_vars

\* The indicators applied to each input.
IndicatorCalls ==
    {[op |-> "compute_rsi", closes |-> closes, period |-> period] :
        closes \in ShortCloses, period \in Periods}
    \cup {[op |-> "compute_rsi", closes |-> closes, period |-> RSI_PERIOD] :
            closes \in LongCloses}
    \cup {[op |-> "compute_adx", bars |-> bars, period |-> period] :
            bars \in 0..MaxBars, period \in Periods}
    \cup {[op |-> "compute_bollinger", closes |-> closes, period |-> period] :
            closes \in ShortCloses, period \in Periods}

InitIndicators ==
    /\ now = 0
    /\ consecutive_losses = 0
    /\ cooldown_until = NoCooldown
    /\ trades = <<>>
    /\ balance = INITIAL_BALANCE_USD
    /\ positions = <<>>
    /\ call \in IndicatorCalls
    /\ result = NoResult
    /\ raised = ""
    /\ steps = <<>>
    /\ epoch = StartEpoch
    /\ cache = PyList(<<>>)
    /\ last_update = 0
    /\ requested = <<>>
    /\ pc = "scan"
    /\ targets = {}
    /\ cycled = <<>>
    /\ passes = 0
    /\ scanned = NoScan

ComputeIndicator ==
    LET outcome ==
            CASE call.op = "compute_rsi" ->
                    compute_rsi(call.closes, call.period)
              [] call.op = "compute_adx" ->
                    compute_adx(call.bars, call.period)
              [] call.op = "compute_bollinger" ->
                    compute_bollinger(call.closes, call.period)
    IN  /\ steps = <<>>
        /\ steps' = <<call.op>>
        /\ raised' = outcome.raised
        /\ result' = IF outcome.raised # "" THEN NoResult ELSE outcome
        /\ UNCHANGED <<now, store, portfolio, call, news_state, loop_state>>

NextIndicators == ComputeIndicator

SpecIndicators == InitIndicators /\ [][NextIndicators]_vars

\* generate_signal applied to each input.
SignalCalls ==
    {[op |-> "generate_signal", rsi |-> rsi, ls_ratio |-> ls_ratio,
      whale_net_vol |-> whale_net_vol, regime |-> regime] :
        rsi \in RsiValues, ls_ratio \in LsRatios,
        whale_net_vol \in WhaleVolumes, regime \in Regimes}

InitSignal ==
    /\ now = 0
    /\ consecutive_losses = 0
    /\ cooldown_until = NoCooldown
    /\ trades = <<>>
    /\ balance = INITIAL_BALANCE_USD
    /\ positions = <<>>
    /\ call \in SignalCalls
    /\ result = NoResult
    /\ raised = ""
    /\ steps = <<>>
    /\ epoch = StartEpoch
    /\ cache = PyList(<<>>)
    /\ last_update = 0
    /\ requested = <<>>
    /\ pc = "scan"
    /\ targets = {}
    /\ cycled = <<>>
    /\ passes = 0
    /\ scanned = NoScan

GenerateSignal ==
    /\ steps = <<>>
    /\ steps' = <<"signal">>
    /\ Returns([NoResult EXCEPT !.signal =
                    generate_signal(call.rsi, call.ls_ratio,
                                    call.whale_net_vol, call.regime)])
    /\ UNCHANGED <<now, store, portfolio, call, news_state, loop_state>>

NextSignal == GenerateSignal

SpecSignal == InitSignal /\ [][NextSignal]_vars

----------------------------------------------------------------------------
(* Properties *)

Blocked == "BLOCKED_BY_CIRCUIT_BREAKER"

\* The breaker state in which the specification refuses trading.
BreakerRefuses ==
    \/ cooldown_until # NoCooldown /\ now < cooldown_until
    \/ consecutive_losses >= MAX_CONSECUTIVE_LOSSES

\* The last three rows of the journal are losses.
ThreeLossesInARow ==
    /\ Len(trades) >= 3
    /\ \A i \in (Len(trades) - 2)..Len(trades) : trades[i].pnl < 0

\* C1: after the breaker has tripped through losing closes, once the clock
\* has passed cooldown_until (and nobody has reset the breaker) the gate
\* allows trading again, and an execute_trade made after that time is not
\* blocked.
C1_RearmsAfterCooldown ==
    (cooldown_until # NoCooldown /\ now > cooldown_until) =>
        /\ check_circuit_breaker
        /\ (call.op = "execute_trade" /\ result.timestamp > cooldown_until)
              => result.action # Blocked

\* C2: three losing closes in a row put the journal on cooldown for
\* COOLDOWN_HOURS, and a BUY made during the cooldown, on whatever symbol,
\* returns BLOCKED_BY_CIRCUIT_BREAKER with blocked = True.
C2_ThreeLossesBlockEverySymbol ==
    /\ (ThreeLossesInARow
          /\ now < trades[Len(trades)].timestamp + COOLDOWN_HOURS)
          => is_on_cooldown
    /\ (/\ call.op = "execute_trade"
        /\ call.signal = "BUY"
        /\ cooldown_until # NoCooldown
        /\ result.timestamp >= cooldown_until - COOLDOWN_HOURS
        /\ result.timestamp < cooldown_until)
          => result.action = Blocked /\ result.blocked = TRUE

\* Three losses on one symbol, then a BUY on the other symbol is refused
\* while the cooldown lasts.
C2_Witness ==
    /\ ThreeLossesInARow
    /\ is_on_cooldown
    /\ call.op = "execute_trade"
    /\ call.signal = "BUY"
    /\ call.symbol = "ETHUSDT"
    /\ "ETHUSDT" \notin DOMAIN positions
    /\ result.action = Blocked
    /\ result.blocked = TRUE

\* C3: check_circuit_breaker is False exactly when the clock is before
\* cooldown_until or the streak is at least MAX_CONSECUTIVE_LOSSES.
C3_GateIsCooldownOrStreak == check_circuit_breaker <=> ~BreakerRefuses

\* A stale streak refuses trading although no cooldown time is stored.
C3_Witness ==
    /\ consecutive_losses >= MAX_CONSECUTIVE_LOSSES
    /\ cooldown_until = NoCooldown
    /\ ~check_circuit_breaker

\* C4: every log_trade (every new journal row) with pnl < 0 adds one to
\* consecutive_losses and every log_trade with pnl >= 0 sets it to 0,
\* whatever the breaker state.
C4_StreakFollowsPnl ==
    [][Len(trades') = Len(trades) + 1 =>
          IF trades'[Len(trades')].pnl < 0
          THEN consecutive_losses' = consecutive_losses + 1
          ELSE consecutive_losses' = 0]_vars

\* A break-even trade logged after three losses, during the cooldown they
\* started, has reset the streak.
C4_Witness ==
    /\ Len(trades) = 4
    /\ \A i \in 1..3 : trades[i].pnl < 0
    /\ trades[4].pnl = 0
    /\ call.op = "log_trade"
    /\ is_on_cooldown
    /\ consecutive_losses = 0

\* C5: while the breaker refuses trading, execute_trade returns
\* BLOCKED_BY_CIRCUIT_BREAKER with blocked = True for every signal and
\* leaves balance, positions, journal and breaker state as they were.
C5_BlockedChangesNothing ==
    [][\A signal \in Signals, current_price \in Prices, symbol \in Symbols :
          (BreakerRefuses /\ ExecuteTradeCall(signal, current_price, symbol))
             => /\ result'.action = Blocked
                /\ result'.blocked = TRUE
                /\ raised' = ""
                /\ UNCHANGED <<store, portfolio>>]_vars

\* A SELL on a symbol with an open position was blocked.
C5_Witness ==
    /\ call.op = "execute_trade"
    /\ call.signal = "SELL"
    /\ call.symbol \in DOMAIN positions
    /\ result.action = Blocked
    /\ result.blocked = TRUE

\* The cycle has candles enough for every indicator.
EnoughBars(feed) == feed.fetch_ok /\ feed.bars >= 2 * ADX_PERIOD + 1

\* C6: a run_cycle for a symbol with an open position, with the breaker
\* allowing and RSI above 70, closes the position, in a CHOPPY regime too.
C6_ExitInAnyRegime ==
    [][\A symbol \in Symbols, feed \in Feeds :
          (/\ symbol \in DOMAIN positions
           /\ check_circuit_breaker
           /\ EnoughBars(feed)
           /\ feed.rsi > 70
           /\ RunCycleCall(symbol, feed))
             => /\ result'.action = "CLOSED_LONG"
                /\ symbol \notin DOMAIN positions']_vars

\* C7: generate_signal returns SELL when rsi > 70; else HOLD when the regime
\* is not TRENDING; else BUY exactly when rsi < 30, ls_ratio < 0.8 and
\* whale_net_vol > 0; else HOLD; and nothing but BUY, SELL or HOLD.
C7_SignalPriority ==
    steps = <<"signal">> =>
        /\ result.signal \in {"BUY", "SELL", "HOLD"}
        /\ (call.rsi > 70 => result.signal = "SELL")
        /\ (call.rsi <= 70 /\ call.regime # "TRENDING"
              => result.signal = "HOLD")
        /\ (call.rsi <= 70 /\ call.regime = "TRENDING"
              => (result.signal = "BUY" <=>
                    /\ call.rsi < 30
                    /\ call.ls_ratio < 8
                    /\ call.whale_net_vol > 0))
        /\ (call.rsi <= 70 /\ call.regime = "TRENDING"
              => result.signal \in {"BUY", "HOLD"})

\* An overbought reading in a CHOPPY regime, with everything else asking
\* for an entry, gave SELL.
C7_Witness ==
    /\ steps = <<"signal">>
    /\ call.rsi > 70
    /\ call.regime = "CHOPPY"
    /\ call.ls_ratio < 8
    /\ call.whale_net_vol > 0
    /\ result.signal = "SELL"

\* The decision of a cycle before any news is looked at.
BaseDecision(feed) ==
    generate_signal(feed.rsi, feed.ls_ratio, feed.whale_vol,
                    get_market_regime(feed.adx))

\* C8: with NEWS_OVERRIDE_RSI on, a BEARISH sentiment turns a decision that
\* would be BUY into HOLD, and no sentiment turns a HOLD or SELL decision
\* into BUY.
C8_BearishVetoesBuy ==
    [][\A symbol \in Symbols, feed \in Feeds :
          (/\ NEWS_OVERRIDE_RSI
           /\ check_circuit_breaker
           /\ EnoughBars(feed)
           /\ get_market_regime(feed.adx) = "TRENDING"
           /\ RunCycleCall(symbol, feed))
             => /\ (BaseDecision(feed) = "BUY" /\ feed.sentiment = "BEARISH")
                      => (raised' = "" /\ result'.signal = "HOLD")
                /\ BaseDecision(feed) # "BUY" => result'.signal # "BUY"]_vars

\* C9: a run_cycle with a successful fetch, enough bars and a TRENDING
\* regime goes through indicators, regime, decision and execution in order,
\* calls execute_trade once with the generated signal, the last close and
\* the symbol, and returns its result without raising.
C9_CycleRunsToExecution ==
    [][\A symbol \in Symbols, feed \in Feeds :
          (/\ EnoughBars(feed)
           /\ get_market_regime(feed.adx) = "TRENDING"
           /\ RunCycleCall(symbol, feed))
             => /\ raised' = ""
                /\ steps' = AllSteps
                /\ result'.signal \in Signals
                /\ result'.price = feed.close
                /\ result'.symbol = symbol]_vars

\* min(TRADE_SIZE_USD, balance), as the specification words it.
MinSize == IF balance < TRADE_SIZE_USD THEN balance ELSE TRADE_SIZE_USD

\* C10: a BUY with the breaker allowing and no position on the symbol:
\* with min(TRADE_SIZE_USD, balance) <= 0 it returns INSUFFICIENT_BALANCE
\* and changes nothing; otherwise it creates the position with entry = price
\* and size_usd = that minimum, takes that size off the balance, writes no
\* journal row and returns OPENED_LONG.
C10_BuyOpensMinSize ==
    [][\A current_price \in ExtremePrices :
          (/\ ~BreakerRefuses
           /\ "BTCUSDT" \notin DOMAIN positions
           /\ ExecuteTradeCall("BUY", current_price, "BTCUSDT"))
             => IF MinSize <= 0
                THEN /\ result'.action = "INSUFFICIENT_BALANCE"
                     /\ UNCHANGED <<store, portfolio>>
                ELSE /\ result'.action = "OPENED_LONG"
                     /\ DOMAIN positions' = DOMAIN positions \cup {"BTCUSDT"}
                     /\ positions'["BTCUSDT"].entry = current_price
                     /\ positions'["BTCUSDT"].size_usd = MinSize
                     /\ balance' = balance - MinSize
                     /\ UNCHANGED store]_vars

\* A BUY was refused for want of balance.
C10_Witness ==
    /\ call.op = "execute_trade"
    /\ call.signal = "BUY"
    /\ result.action = "INSUFFICIENT_BALANCE"
    /\ balance <= 0
    /\ positions = <<>>

\* C11: a SELL with the breaker allowing and a position on the symbol (its
\* entry not zero) computes pnl = (price - entry) / entry * size_usd, adds
\* size_usd + pnl to the balance, appends exactly one journal row with that
\* price, size and pnl (which updates the streak), removes the position and
\* returns CLOSED_LONG carrying that pnl and the id of the row.
C11_SellClosesPosition ==
    [][\A current_price \in ExtremePrices :
          (/\ ~BreakerRefuses
           /\ "BTCUSDT" \in DOMAIN positions
           /\ positions["BTCUSDT"].entry # 0
           /\ ExecuteTradeCall("SELL", current_price, "BTCUSDT"))
             => LET pos == positions["BTCUSDT"]
                    row == trades'[Len(trades')]
                IN  /\ raised' = ""
                    /\ result'.action = "CLOSED_LONG"
                    /\ result'.pnl * pos.entry =
                          (current_price - pos.entry) * pos.size_usd
                    /\ balance' = balance + pos.size_usd + result'.pnl
                    /\ Len(trades') = Len(trades) + 1
                    /\ SubSeq(trades', 1, Len(trades)) = trades
                    /\ row.side = "SELL"
                    /\ row.price = current_price
                    /\ row.size_usd = pos.size_usd
                    /\ row.pnl = result'.pnl
                    /\ consecutive_losses' =
                          IF result'.pnl < 0 THEN consecutive_losses + 1 ELSE 0
                    /\ result'.trade_id = Len(trades')
                    /\ positions' = <<>>]_vars

\* A position entered at 2 was closed at 1 with a loss of half its size.
C11_Witness ==
    /\ call.op = "execute_trade"
    /\ call.signal = "SELL"
    /\ call.price = 1
    /\ result.action = "CLOSED_LONG"
    /\ result.pnl = -50
    /\ result.trade_id = Len(trades)
    /\ trades[Len(trades)].pnl = -50
    /\ consecutive_losses = 1
    /\ balance = INITIAL_BALANCE_USD - 50
    /\ positions = <<>>

\* C12: with the breaker allowing, a HOLD, a BUY on a symbol that has a
\* position and a SELL on a symbol that has none leave balance, positions,
\* journal and breaker state as they were; the first returns HOLD and the
\* other two NO_ACTION.
C12_NoOpsChangeNothing ==
    [][\A signal \in Signals, current_price \in Prices, symbol \in Symbols :
          (/\ ~BreakerRefuses
           /\ \/ signal = "HOLD"
              \/ signal = "BUY" /\ symbol \in DOMAIN positions
              \/ signal = "SELL" /\ symbol \notin DOMAIN positions
           /\ ExecuteTradeCall(signal, current_price, symbol))
             => /\ raised' = ""
                /\ result'.action =
                      IF signal = "HOLD" THEN "HOLD" ELSE "NO_ACTION"
                /\ result'.pnl = 0
                /\ UNCHANGED <<store, portfolio>>]_vars

\* A second BUY, at another price, on a symbol that is already long was
\* answered NO_ACTION and the position kept its entry.
C12_Witness ==
    /\ call.op = "execute_trade"
    /\ call.signal = "BUY"
    /\ call.symbol \in DOMAIN positions
    /\ positions[call.symbol].entry # call.price
    /\ result.action = "NO_ACTION"

\* C13: an execute_trade for one symbol never creates, changes or removes
\* the position of another symbol: after opening on two symbols both
\* positions exist, and closing one leaves the other's entry and size as
\* they were.
C13_OtherSymbolsUntouched ==
    [][\A signal \in Signals, current_price \in Prices, symbol \in Symbols :
          ExecuteTradeCall(signal, current_price, symbol)
             => \A other \in Symbols \ {symbol} :
                   /\ other \in DOMAIN positions' <=> other \in DOMAIN positions
                   /\ other \in DOMAIN positions
                         => positions'[other] = positions[other]]_vars

\* Both symbols were long and one of them has just been closed: the other
\* is still open.
C13_Witness ==
    /\ call.op = "execute_trade"
    /\ call.signal = "SELL"
    /\ result.action = "CLOSED_LONG"
    /\ DOMAIN positions = Symbols \ {call.symbol}
    /\ balance < INITIAL_BALANCE_USD - 50

\* C14: in every reachable state the size_usd of each open position is at
\* most TRADE_SIZE_USD and at most the available balance.
C14_SizeWithinTradeSizeAndBalance ==
    \A s \in DOMAIN positions :
        /\ positions[s].size_usd <= TRADE_SIZE_USD
        /\ positions[s].size_usd <= balance

\* C14 as amended: the size_usd of each open position is at most
\* TRADE_SIZE_USD and at most the balance that was available when the
\* position was opened, before its size was taken off.
C14_SizeWithinTradeSizeAndBalanceAtOpen ==
    [][/\ \A s \in DOMAIN positions' :
              positions'[s].size_usd <= TRADE_SIZE_USD
       /\ \A s \in DOMAIN positions' \ DOMAIN positions :
              positions'[s].size_usd <= balance]_vars

\* With 50 left after the crash, a BUY opened a position of 50 and left
\* nothing.
C14_Witness ==
    /\ call.op = "execute_trade"
    /\ call.signal = "BUY"
    /\ result.action = "OPENED_LONG"
    /\ result.size_usd = 50
    /\ positions[call.symbol].size_usd = 50
    /\ balance = 0

\* C15: a close is atomic: when the journal write fails during a SELL,
\* balance, positions, journal and breaker state are exactly as before the
\* call; a close that is reported has updated all of them.
C15_CloseIsAtomic ==
    [][/\ raised' = "OperationalError" => UNCHANGED <<store, portfolio>>
       /\ (call'.op = "execute_trade" /\ result'.action = "CLOSED_LONG")
             => /\ Len(trades') = Len(trades) + 1
                /\ call'.symbol \in DOMAIN positions
                /\ call'.symbol \notin DOMAIN positions'
                /\ balance' = balance + positions[call'.symbol].size_usd
                                 + result'.pnl]_vars

\* C16: in every state reachable by execute_trade calls with arbitrary
\* prices, every open position has entry > 0 and size_usd > 0.
C16_PositionsArePositive ==
    \A s \in DOMAIN positions :
        /\ positions[s].entry > 0
        /\ positions[s].size_usd > 0

Sentiments == {"BULLISH", "BEARISH", "NEUTRAL"}

\* C18: get_sentiment never raises: for every symbol and every outcome of
\* the feed request it returns BULLISH, BEARISH or NEUTRAL, and it returns
\* NEUTRAL when the failure leaves no usable articles.
C18_SentimentNeverRaises ==
    call.op = "get_sentiment" =>
        /\ raised = ""
        /\ result.sentiment \in Sentiments
        /\ (call.response.outcome # "results" /\ cache.items = <<>>)
              => result.sentiment = "NEUTRAL"

\* C19: any two requests sent to the news feed are at least
\* NEWS_POLL_INTERVAL_SEC apart, also when a request fails.
C19_RequestsKeepInterval ==
    \A i, j \in DOMAIN requested :
        i < j => requested[j] - requested[i] >= NEWS_POLL_INTERVAL_SEC

\* C20: in run_auto a fetch failure or any other Exception raised while one
\* symbol is processed never ends the pass or the loop: every target that
\* is left still gets its run_cycle, and after the last one the loop goes to
\* its sleep, from which the next pass starts.
C20_PassSurvivesExceptions ==
    [][/\ \A sym \in Symbols, feed \in Feeds :
              AutoCycleCall(sym, feed) =>
                 /\ targets' = targets
                 /\ cycled_symbols' = cycled_symbols \cup {sym}
                 /\ pc' = IF cycled_symbols' = targets
                           THEN "sleep" ELSE "cycle"
       /\ pc' = "sleep" => cycled_symbols' = targets'
       /\ pc = "sleep" => pc' \in {"sleep", "scan"}]_vars

\* The first target of a pass raised, the second failed to fetch, and the
\* loop is at its sleep with both of them done.
C20_Witness ==
    /\ pc = "sleep"
    /\ targets = Symbols
    /\ Len(cycled) = 2
    /\ cycled[1].outcome = "TypeError"
    /\ cycled[2].outcome = "FETCH_ERROR"

\* C21: a skipped cycle is a result, not an error: with a CHOPPY regime and
\* with a fetched series too short for an indicator alike, run_cycle
\* returns a SKIP result, raises nothing and does not call execute_trade.
C21_SkipIsAResult ==
    [][\A symbol \in Symbols, feed \in Feeds :
          (/\ feed.fetch_ok
           /\ \/ feed.bars < 2 * ADX_PERIOD + 1
              \/ get_market_regime(feed.adx) = "CHOPPY"
           /\ RunCycleCall(symbol, feed))
             => /\ raised' = ""
                /\ result'.action \in {"SKIP_CHOPPY", "SKIP_INSUFFICIENT_DATA"}
                /\ \A i \in DOMAIN steps' : steps'[i] # "execute"
                /\ UNCHANGED <<store, portfolio>>]_vars

C23_BreakerSurvivesRestart ==
    [][/\ Restart => /\ UNCHANGED <<consecutive_losses, cooldown_until, trades>>
                     /\ check_circuit_breaker' = check_circuit_breaker
       /\ \A signal \in Signals, current_price \in Prices, symbol \in Symbols :
              (/\ call.op = "PaperTrader"
               /\ BreakerRefuses
               /\ ExecuteTradeCall(signal, current_price, symbol))
                 => /\ result'.blocked
                    /\ result'.action = Blocked
                    /\ UNCHANGED <<store, portfolio>>]_vars

\* The breaker tripped on three losses, the program was restarted (the
\* balance is the initial one again) and the BUY after the restart was
\* blocked.
C23_Witness ==
    /\ ThreeLossesInARow
    /\ call.op = "execute_trade"
    /\ call.signal = "BUY"
    /\ call.symbol = "ETHUSDT"
    /\ result.blocked
    /\ balance = INITIAL_BALANCE_USD
    /\ positions = <<>>

\* C24: the journal is append-only with exactly one record per close: an
\* execute_trade that returns CLOSED_LONG appends one record, of status
\* CLOSED and with the returned trade_id, behind the unchanged records; an
\* execute_trade with any other result (OPENED_LONG, HOLD, NO_ACTION,
\* INSUFFICIENT_BALANCE, BLOCKED) or with an exception leaves the journal as
\* it was.  Hence the records are as many as the CLOSED_LONG results.
C24_JournalAppendOnly ==
    [][\A signal \in Signals, current_price \in NonNegativePrices,
         symbol \in Symbols :
          ExecuteTradeCall(signal, current_price, symbol) =>
             IF raised' = "" /\ result'.action = "CLOSED_LONG"
             THEN /\ Len(trades') = Len(trades) + 1
                  /\ SubSeq(trades', 1, Len(trades)) = trades
                  /\ trades'[Len(trades')].status = "CLOSED"
                  /\ result'.trade_id = Len(trades')
             ELSE trades' = trades]_vars

\* Three closes were journalled, and the call after them returned NO_ACTION.
C24_Witness ==
    /\ Len(trades) = 3
    /\ \A i \in DOMAIN trades : trades[i].status = "CLOSED"
    /\ \E i \in DOMAIN trades : trades[i].pnl > 0
    /\ result.action = "NO_ACTION"
    /\ DOMAIN positions = {"ETHUSDT"}

\* The minimum length each indicator states for its input.
StatedMinimum ==
    CASE call.op = "compute_rsi" -> call.period + 1
      [] call.op = "compute_adx" -> 2 * call.period + 1
      [] call.op = "compute_bollinger" -> call.period

InputLength ==
    IF call.op = "compute_adx" THEN call.bars ELSE Len(call.closes)

\* C25: compute_rsi, compute_adx and compute_bollinger raise the
\* insufficient-data error (ValueError) exactly when the input is shorter
\* than period + 1 closes, 2 * period + 1 bars and period closes
\* respectively; on every longer input, with period >= 1, they return a
\* value and raise nothing.
C25_InsufficientDataExactly ==
    steps # <<>> =>
        /\ raised = "ValueError" <=> InputLength < StatedMinimum
        /\ raised = "" <=> InputLength >= StatedMinimum
        /\ raised = "" => result.raised = "" /\ "value" \in DOMAIN result

\* compute_adx returned on exactly 2 * period + 1 bars.
C25_Witness ==
    /\ call.op = "compute_adx"
    /\ call.period = 3
    /\ call.bars = 2 * call.period + 1
    /\ steps # <<>>
    /\ raised = ""

\* C26: for every closes sequence of length at least period + 1,
\* compute_rsi returns a value in [0, 100].
C26_RsiWithinRange ==
    (/\ call.op = "compute_rsi"
     /\ steps # <<>>
     /\ Len(call.closes) >= call.period + 1)
       => /\ raised = ""
          /\ ~BigIsZero(result.value.den)
          /\ ~Below(result.value, 0)
          /\ ~Exceeds(result.value, 100)

\* An RSI strictly between 0 and 100, from gains and losses smoothed over
\* period 3.
C26_Witness ==
    /\ call.op = "compute_rsi"
    /\ call.period = 3
    /\ Len(call.closes) = 5
    /\ raised = ""
    /\ steps # <<>>
    /\ Exceeds(result.value, 50)
    /\ Below(result.value, 100)

StrictlyRising(closes) ==
    \A i \in 1..(Len(closes) - 1) : closes[i] < closes[i + 1]

StrictlyFalling(closes) ==
    \A i \in 1..(Len(closes) - 1) : closes[i] > closes[i + 1]

\* C27: for every closes sequence of at least 30 points, closes that rise
\* from each bar to the next yield compute_rsi > 70 and closes that fall from
\* each bar to the next yield compute_rsi < 30.
C27_MonotoneSeriesAreExtreme ==
    (/\ call.op = "compute_rsi"
     /\ steps # <<>>
     /\ Len(call.closes) >= MinPoints)
       => /\ raised = ""
          /\ StrictlyRising(call.closes) => Exceeds(result.value, 70)
          /\ StrictlyFalling(call.closes) => Below(result.value, 30)

\* A falling series of 31 closes with steps of 1 and 3 got an RSI under 30.
C27_Witness ==
    /\ call.op = "compute_rsi"
    /\ call.period = RSI_PERIOD
    /\ call.closes = Falling(31, 5, 6)
    /\ raised = ""
    /\ steps # <<>>
    /\ Below(result.value, 30)

\* C28: from any breaker state, reset_circuit_breaker sets
\* consecutive_losses to 0 and clears cooldown_until, so that the next
\* check_circuit_breaker returns True; it changes no trade record, no
\* position and no balance.
C28_ResetRearms ==
    [][ResetCircuitBreaker =>
          /\ consecutive_losses' = 0
          /\ cooldown_until' = NoCooldown
          /\ check_circuit_breaker'
          /\ UNCHANGED <<trades, balance, positions>>]_vars

\* The breaker had tripped on three losses while another position was open;
\* after the reset the gate is open and journal and portfolio are as they
\* were.
C28_Witness ==
    /\ call.op = "reset_circuit_breaker"
    /\ ThreeLossesInARow
    /\ DOMAIN positions = {"ETHUSDT"}
    /\ balance < INITIAL_BALANCE_USD
    /\ consecutive_losses = 0
    /\ check_circuit_breaker

\* C29: a SELL on a position whose entry price is 0 fails with an error,
\* and the failed call leaves balance, positions, the journal and the
\* breaker state unchanged.
C29_ZeroEntrySellFails ==
    [][\A current_price \in NonNegativePrices, symbol \in Symbols :
          (/\ symbol \in DOMAIN positions
           /\ positions[symbol].entry = 0
           /\ ExecuteTradeCall("SELL", current_price, symbol))
             => /\ raised' # ""
                /\ UNCHANGED <<store, portfolio>>]_vars

\* C29, amended: with the breaker allowing, a SELL on a position whose
\* entry price is 0 raises ZeroDivisionError out of execute_trade, and the
\* failed call leaves balance, positions, the journal and the breaker state
\* unchanged.
C29_ZeroEntrySellFailsWhenAllowed ==
    [][\A current_price \in NonNegativePrices, symbol \in Symbols :
          (/\ check_circuit_breaker
           /\ symbol \in DOMAIN positions
           /\ positions[symbol].entry = 0
           /\ ExecuteTradeCall("SELL", current_price, symbol))
             => /\ raised' = "ZeroDivisionError"
                /\ UNCHANGED <<store, portfolio>>]_vars

\* After two journalled closes, a SELL at 2 on the position entered at 0
\* raised and the position is still there.
C29_Witness ==
    /\ call.op = "execute_trade"
    /\ call.signal = "SELL"
    /\ call.price = 2
    /\ raised = "ZeroDivisionError"
    /\ call.symbol \in DOMAIN positions
    /\ positions[call.symbol].entry = 0
    /\ Len(trades) = 2

\* How often the pass has analysed the symbol.
TimesCycled(sym) == Cardinality({i \in DOMAIN cycled : cycled[i].symbol = sym})

\* C30: held positions are never abandoned by the scanner: in every
\* run_auto pass whose pair scan returns, each symbol with an open position
\* is among the targets of the pass, whether or not it is in the top-volume
\* list, no target is analysed twice, and when the pass is over each held
\* symbol has been analysed exactly once.
C30_HeldPositionsAreScanned ==
    (pc \in {"cycle", "sleep"} /\ ~scanned.raises) =>
        /\ DOMAIN positions \subseteq targets
        /\ \A sym \in targets : TimesCycled(sym) <= 1
        /\ pc = "sleep" => \A sym \in DOMAIN positions : TimesCycled(sym) = 1

\* The second pass is over: ETHUSDT is held and was not among the top pairs
\* (BTCUSDT alone), and both were analysed.
C30_Witness ==
    /\ pc = "sleep"
    /\ passes = 2
    /\ ~scanned.raises
    /\ scanned.top = {"BTCUSDT"}
    /\ DOMAIN positions = {"ETHUSDT"}
    /\ targets = Symbols
    /\ TimesCycled("ETHUSDT") = 1
    /\ TimesCycled("BTCUSDT") = 1

\* C31: a KeyboardInterrupt arriving at any point of run_auto, during the
\* scan, during a symbol's cycle or during the sleep between passes, is
\* handled by the shutdown path (logged, exit status 0) and leaves the
\* journal and the breaker state as they were.
C31_InterruptShutsDown ==
    [][Interrupt => /\ pc' = "shutdown"
                    /\ raised' = "SystemExit"
                    /\ UNCHANGED store]_vars

\* C32: when trades are closed only through execute_trade, from a fresh or a
\* reset breaker, consecutive_losses never exceeds MAX_CONSECUTIVE_LOSSES: no
\* close happens once the limit is reached.
C32_StreakNeverExceedsLimit ==
    consecutive_losses <= MAX_CONSECUTIVE_LOSSES

\* The streak is at the limit and a SELL of a position that is still open
\* was refused.
C32_Witness ==
    /\ consecutive_losses = MAX_CONSECUTIVE_LOSSES
    /\ call.op = "execute_trade"
    /\ call.signal = "SELL"
    /\ call.symbol \in DOMAIN positions
    /\ result.action = "BLOCKED_BY_CIRCUIT_BREAKER"

\* C33: in every state reached from init_db by log_trade,
\* reset_circuit_breaker and execute_trade, consecutive_losses at or above
\* MAX_CONSECUTIVE_LOSSES implies that cooldown_until is set; and a log_trade
\* that leaves the count below the limit, called directly or by
\* execute_trade, leaves cooldown_until as it was.
C33_LimitImpliesCooldown ==
    /\ [](consecutive_losses >= MAX_CONSECUTIVE_LOSSES
            => cooldown_until # NoCooldown)
    /\ [][(/\ Len(trades') = Len(trades) + 1
           /\ consecutive_losses' < MAX_CONSECUTIVE_LOSSES)
              => UNCHANGED cooldown_until]_vars

\* The breaker tripped, and a winning trade logged after that took the
\* streak back to zero with the cooldown still set.
C33_Witness ==
    /\ call.op = "log_trade"
    /\ call.pnl > 0
    /\ Len(trades) > MAX_CONSECUTIVE_LOSSES
    /\ consecutive_losses = 0
    /\ cooldown_until # NoCooldown

RECURSIVE journal_pnl(_)
journal_pnl(n) ==
    IF n = 0 THEN float_zero
    ELSE exact_add(journal_pnl(n - 1), trades[n].pnl)

RECURSIVE held_usd(_)
held_usd(symbols) ==
    IF symbols = {} THEN float_zero
    ELSE LET s == CHOOSE s \in symbols : TRUE
         IN  exact_add(positions[s].size_usd, held_usd(symbols \ {s}))

\* C34: money is conserved: in every state reached by execute_trade calls
\* within one PaperTrader lifetime on a fresh journal, balance plus the sum
\* of size_usd over all open positions equals INITIAL_BALANCE_USD plus the
\* sum of pnl over all journal records, the sums taken in the reals.
C34_MoneyIsConserved ==
    exact_add(balance, held_usd(DOMAIN positions))
        = exact_add(float_of(INITIAL_BALANCE_USD), journal_pnl(Len(trades)))

====
